---- MODULE Spec2Model ----
(***************************************************************************)
(* icetime/iceutil.cc: locating the chip database file.                    *)
(*                                                                         *)
(* find_chipdb(config_device) probes up to three candidate paths with      *)
(* file_test_open and returns the first that opens; the last candidate is  *)
(* built from proc_self_dirname(), which has one implementation per        *)
(* platform.  C strings are TLA+ strings, a char* that may be NULL is an   *)
(* option (<<>> is NULL, <<s>> points to s).                               *)
(***************************************************************************)
EXTENDS Integers, Sequences, FiniteSets, TLC

(***************************************************************************)
(* Bounds of the model.                                                    *)
(***************************************************************************)
\* longest PATH, in entries, that the resolver is run on by itself
MaxPathEntries == 3

(***************************************************************************)
(* Program constants.                                                      *)
(***************************************************************************)
PATH_MAX == 4096

NULL == <<>>
Ptr(s) == <<s>>
Deref(p) == p[1]

Platforms == {"linux", "freebsd", "apple", "win32", "openbsd", "emscripten"}

(***************************************************************************)
(* Character level helpers.  C indices are 0-based; buf[i] of a string of  *)
(* length n is its terminating NUL for i = n.                              *)
(***************************************************************************)
NUL == "NUL"
CharAt(buf, i) == IF 0 <= i /\ i < Len(buf) THEN SubSeq(buf, i + 1, i + 1) ELSE NUL
Prefix(buf, n) == SubSeq(buf, 1, n)
Suffix(buf, i) == SubSeq(buf, i + 1, Len(buf))
Min(a, b) == IF a < b THEN a ELSE b

\* a variant of TrimLen that also drops the separator it stops at
RECURSIVE TrimLen_DropsSeparator(_, _)
TrimLen_DropsSeparator(buf, buflen) ==
    IF buflen > 0 /\ CharAt(buf, buflen - 1) # "/"
    THEN TrimLen_DropsSeparator(buf, buflen - 1)
    ELSE IF buflen > 0 THEN buflen - 1 ELSE 0

\* while (buflen > 0 && path[buflen-1] != '/') buflen--;
RECURSIVE TrimLen(_, _)
TrimLen(buf, buflen) ==
    IF buflen > 0 /\ CharAt(buf, buflen - 1) # "/"
    THEN TrimLen(buf, buflen - 1)
    ELSE buflen

\* while (i > 0 && shortpath[i-1] != '/' && shortpath[i-1] != '\\') shortpath[--i] = 0;
RECURSIVE TrimLenWin(_, _)
TrimLenWin(buf, i) ==
    IF i > 0 /\ CharAt(buf, i - 1) # "/" /\ CharAt(buf, i - 1) # "\\"
    THEN TrimLenWin(buf, i - 1)
    ELSE i

Dirname(buf) == Prefix(buf, TrimLen(buf, Len(buf)))

(***************************************************************************)
(* strtok_r(str, ":", &sp): skip leading delimiters; NULL when nothing is  *)
(* left; otherwise the token runs to the next delimiter and sp is left     *)
(* behind that delimiter.  The result is <<token or NULL, rest>>.          *)
(***************************************************************************)
RECURSIVE SkipDelims(_)
SkipDelims(str) ==
    IF Len(str) > 0 /\ CharAt(str, 0) = ":" THEN SkipDelims(Suffix(str, 1)) ELSE str

RECURSIVE TokenLen(_, _)
TokenLen(str, n) ==
    IF n < Len(str) /\ CharAt(str, n) # ":" THEN TokenLen(str, n + 1) ELSE n

strtok_r(str) ==
    LET s == SkipDelims(str)
        n == TokenLen(s, 0)
    IN  IF Len(s) = 0 THEN <<NULL, "">>
        ELSE <<Ptr(Prefix(s, n)), Suffix(s, Min(n + 1, Len(s)))>>

(***************************************************************************)
(* Inputs: build configuration, environment, file system, process image.   *)
(***************************************************************************)
Builds ==
    { [prefix |-> "~/i",       subdir |-> "icebox"],
      [prefix |-> "~i",        subdir |-> "icebox"],
      [prefix |-> "/opt/tool", subdir |-> "share/chipdb"],
      [prefix |-> "..",        subdir |-> "icebox"] }

Devices == {"hx8k", "lp1k"}

EnvNames == {"HOME", "USERPROFILE", "HOMEDRIVE", "HOMEPATH", "PATH"}

EnvValues(name) ==
    CASE name = "HOME"        -> {NULL, Ptr("/h")}
      [] name = "USERPROFILE" -> {NULL, Ptr("C:\\u")}
      [] name = "HOMEDRIVE"   -> {NULL, Ptr("D:")}
      [] name = "HOMEPATH"    -> {NULL, Ptr("\\h")}
      [] OTHER                -> {NULL}

\* the variables a platform's code reads (PATH is chosen separately)
EnvRead(p) ==
    IF p = "win32" THEN {"USERPROFILE", "HOMEDRIVE", "HOMEPATH"} ELSE {"HOME"}

\* the path of the running executable as the platform reports it
ExePaths(p) ==
    CASE p \in {"linux", "freebsd"} -> {"/b/tool", "/tool", "tool"}
      [] p = "apple"                -> {"/b/tool", "/b//tool", "tool"}
      [] p = "win32"                -> {"C:\\Program Files\\tool.exe", "C:/b/tool.exe", "tool.exe"}
      [] OTHER                      -> {"/b/tool"}

\* argv[0]: found through PATH, an absolute path, a path relative to the working
\* directory with and without a leading "."
Argv0s == {"tool", "/b/tool", "./tool", "bin/tool"}

\* GetShortPathName: the 8.3 form of a long path
ShortPathName(long) ==
    IF long = "C:\\Program Files\\tool.exe" THEN "C:\\PROGRA~1\\tool.exe" ELSE long

PathDirs == {"/a", "/b", "/c", "/b/", ""}
ToolFiles(comm) == { d \o "/" \o comm : d \in {"/a", "/b", "/c"} }
FileModes == {"absent", "noexec", "exec"}

RECURSIVE Join(_)
Join(seq) ==
    IF Len(seq) = 0 THEN ""
    ELSE IF Len(seq) = 1 THEN seq[1]
    ELSE seq[1] \o ":" \o Join(Tail(seq))

SeqsUpTo(S, n) == UNION { [1..k -> S] : k \in 0..n }

PathValues(n) == {NULL} \cup { Ptr(Join(s)) : s \in SeqsUpTo(PathDirs, n) }

\* a path with its doubled separators collapsed names the same file
RECURSIVE Collapse(_)
Collapse(path) ==
    IF Len(path) < 2 THEN path
    ELSE IF CharAt(path, 0) = "/" /\ CharAt(path, 1) = "/" THEN Collapse(Suffix(path, 1))
    ELSE Prefix(path, 1) \o Collapse(Suffix(path, 1))

VARIABLES
    platform,       \* which #if branch of proc_self_dirname is compiled
    PREFIX,         \* build-time macro
    CHIPDB_SUBDIR,  \* build-time macro
    verbose,        \* extern bool verbose
    config_device,  \* argument of find_chipdb
    env,            \* the environment: name -> value or NULL
    files,          \* paths that fopen(path, "r") opens
    modes,          \* stat() of the executable's possible locations
    exePath,        \* the executable's path as the platform reports it
    argv0,          \* argv[0] of the process
    pc,             \* line being executed
    caller,         \* return address of proc_self_dirname
    homepath, prefixpath, relbinarypath,   \* locals of find_chipdb
    ret,            \* find_chipdb's return value, NULL until it returns
    dirname,        \* proc_self_dirname's return value, NULL until it returns
    buffer, buflen, \* the resolver's result buffer and its length variable
    epath, ok, xpath, sp, tok,             \* locals of the OpenBSD resolver
    stderr,         \* lines written to stderr
    exitStatus,     \* "running", or how the process ended
    opened,         \* paths passed to file_test_open, in order
    getenvs,        \* names passed to getenv, in order
    stats,          \* paths passed to stat, in order
    calls,          \* calls of proc_self_dirname
    failures        \* platform calls and allocations that failed, in order

inputs == <<platform, PREFIX, CHIPDB_SUBDIR, verbose, config_device, env, files,
            modes, exePath, argv0>>
chipdbLocals == <<homepath, prefixpath, relbinarypath, ret>>
resolverLocals == <<dirname, buffer, buflen, epath, ok, xpath, sp, tok>>
observed == <<stderr, exitStatus, opened, getenvs, stats, calls, failures>>
vars == <<inputs, pc, caller, chipdbLocals, resolverLocals, observed>>

(***************************************************************************)
(* The three candidates of find_chipdb.                                    *)
(***************************************************************************)
ChipdbFile(subdir, device) == subdir \o "/chipdb-" \o device \o ".txt"

\* a variant of HomePath built on the fixed-prefix template
HomePath_WithShare(home, prefix, subdir, device) ==
    home \o Suffix(prefix, 1) \o "/share/" \o ChipdbFile(subdir, device)

HomePath(home, prefix, subdir, device) ==
    home \o Suffix(prefix, 1) \o "/" \o ChipdbFile(subdir, device)

PrefixPath(prefix, subdir, device) ==
    prefix \o "/share/" \o ChipdbFile(subdir, device)

RelBinaryPath(dir, subdir, device) ==
    dir \o "../share/" \o ChipdbFile(subdir, device)

\* *comm == '/' || *comm == '.'
IsPathName(comm) == CharAt(comm, 0) = "/" \/ CharAt(comm, 0) = "."

\* a variant of IsHomePrefix that tests the first character only
IsHomePrefix_TildeOnly(prefix) == CharAt(prefix, 0) = "~"

\* PREFIX[0] == '~' && PREFIX[1] == '/'
IsHomePrefix(prefix) == CharAt(prefix, 0) = "~" /\ CharAt(prefix, 1) = "/"

(***************************************************************************)
(* The home directory lookup: the getenv calls made, in order, and the     *)
(* possible values of homepath after them.  Appending getenv("HOME") when  *)
(* HOME is unset appends a null pointer to a std::string, which is         *)
(* undefined: the process is killed (NULL here) or nothing is appended.    *)
(***************************************************************************)
HomeGetenvs(p, e) ==
    IF p = "win32"
    THEN IF e["USERPROFILE"] # NULL THEN <<"USERPROFILE", "USERPROFILE">>
         ELSE IF e["HOMEDRIVE"] = NULL THEN <<"USERPROFILE", "HOMEDRIVE">>
         ELSE IF e["HOMEPATH"] = NULL THEN <<"USERPROFILE", "HOMEDRIVE", "HOMEPATH">>
         ELSE <<"USERPROFILE", "HOMEDRIVE", "HOMEPATH", "HOMEDRIVE", "HOMEPATH">>
    ELSE <<"HOME">>

HomeDirs(p, e) ==
    IF p = "win32"
    THEN IF e["USERPROFILE"] # NULL THEN {Ptr(Deref(e["USERPROFILE"]))}
         ELSE IF e["HOMEDRIVE"] # NULL /\ e["HOMEPATH"] # NULL
              THEN {Ptr(Deref(e["HOMEDRIVE"]) \o Deref(e["HOMEPATH"]))}
              ELSE {Ptr("")}
    ELSE IF e["HOME"] # NULL THEN {Ptr(Deref(e["HOME"]))} ELSE {NULL, Ptr("")}

\* bool file_test_open(std::string path)
file_test_open(path) == path \in files

\* a variant of Stat that reports every existing file as executable
Stat_IgnoresMode(path) ==
    LET f == Collapse(path)
    IN  IF f \in DOMAIN modes /\ modes[f] # "absent" THEN "exec" ELSE "absent"

\* struct stat of a path: st_mode's S_IXUSR bit, or ENOENT
Stat(path) ==
    LET f == Collapse(path) IN IF f \in DOMAIN modes THEN modes[f] ELSE "absent"

(***************************************************************************)
(* Initial states.  The chip database may be installed at any of the       *)
(* places find_chipdb can look in for the chosen build and environment.    *)
(***************************************************************************)
ChipdbDirs(p, exe) ==
    CASE p = "openbsd"    -> {"", "/b/"}
      [] p = "emscripten" -> {"/"}
      [] p = "win32"      -> {Prefix(ShortPathName(exe), TrimLenWin(ShortPathName(exe), Len(ShortPathName(exe))))}
      [] OTHER            -> {Dirname(exe)}

ChipdbPlaces(p, e, exe, prefix, subdir, device) ==
    { HomePath(Deref(h), prefix, subdir, device) : h \in HomeDirs(p, e) \ {NULL} }
      \cup { PrefixPath(prefix, subdir, device) }
      \cup { RelBinaryPath(d, subdir, device) : d \in ChipdbDirs(p, exe) }

Envs(p, paths) ==
    { [n \in EnvNames |-> IF n = "PATH" THEN pv ELSE IF n \in EnvRead(p) THEN e[n] ELSE NULL] :
        e \in { f \in [EnvRead(p) -> UNION { EnvValues(n) : n \in EnvRead(p) }] :
                  \A n \in EnvRead(p) : f[n] \in EnvValues(n) },
        pv \in paths }

InitLocals ==
    /\ homepath = "" /\ prefixpath = "" /\ relbinarypath = "" /\ ret = NULL
    /\ dirname = NULL /\ buffer = NULL /\ buflen = 0
    /\ epath = "" /\ ok = 0 /\ xpath = NULL /\ sp = "" /\ tok = NULL
    /\ stderr = <<>> /\ exitStatus = "running"
    /\ opened = <<>> /\ getenvs = <<>> /\ stats = <<>> /\ calls = 0 /\ failures = <<>>

\* the process image: what the platform reports, PATH and the files PATH may name
InitProcess(argv0s, paths, fileModes) ==
    /\ platform \in Platforms
    /\ exePath \in ExePaths(platform)
    /\ argv0 \in IF platform = "openbsd" THEN argv0s ELSE {"tool"}
    /\ \E e \in Envs(platform, IF platform = "openbsd" /\ ~IsPathName(argv0)
                                THEN paths ELSE {NULL}) :
          env = e
    /\ modes \in [ToolFiles(argv0) -> IF env["PATH"] # NULL THEN fileModes ELSE {"absent"}]

\* find_chipdb is called
Init ==
    /\ InitProcess(Argv0s \ {"bin/tool"}, {NULL, Ptr("/a:/b")}, {"absent", "exec"})
    /\ modes["/c/" \o argv0] = "absent"
    /\ \E b \in Builds : PREFIX = b.prefix /\ CHIPDB_SUBDIR = b.subdir
    /\ config_device \in Devices
    /\ verbose \in BOOLEAN
    /\ files \in SUBSET ChipdbPlaces(platform, env, exePath, PREFIX, CHIPDB_SUBDIR, config_device)
    /\ pc = "L220" /\ caller = "L249"
    /\ InitLocals

(***************************************************************************)
(* find_chipdb                                                             *)
(***************************************************************************)
Running == exitStatus = "running"

\* if (verbose) fprintf(stderr, "Looking for chipdb '%s' at %s\n", ...)
Looking(path) ==
    IF verbose THEN Append(stderr, <<"Looking for chipdb", config_device, path>>) ELSE stderr

\* a variant of HomeOverride that goes on to the fixed prefix after a hit
HomeOverride_FallsThrough ==
    /\ pc = "L220" /\ Running
    /\ IsHomePrefix(PREFIX)
    /\ getenvs' = getenvs \o HomeGetenvs(platform, env)
    /\ \E home \in HomeDirs(platform, env) :
          IF home = NULL
          THEN /\ exitStatus' = "SIGSEGV"
               /\ UNCHANGED <<pc, homepath, ret, stderr, opened>>
          ELSE LET path == HomePath(Deref(home), PREFIX, CHIPDB_SUBDIR, config_device) IN
               /\ homepath' = path
               /\ stderr' = Looking(path)
               /\ opened' = Append(opened, path)
               /\ ret' = ret /\ pc' = "L243"
               /\ UNCHANGED exitStatus
    /\ UNCHANGED <<inputs, caller, prefixpath, relbinarypath, resolverLocals, stats, calls, failures>>

\* the "~/" branch: read the home directory, build the candidate, probe it
HomeOverride ==
    /\ pc = "L220" /\ Running
    /\ IsHomePrefix(PREFIX)
    /\ getenvs' = getenvs \o HomeGetenvs(platform, env)
    /\ \E home \in HomeDirs(platform, env) :
          IF home = NULL
          THEN /\ exitStatus' = "SIGSEGV"
               /\ UNCHANGED <<pc, homepath, ret, stderr, opened>>
          ELSE LET path == HomePath(Deref(home), PREFIX, CHIPDB_SUBDIR, config_device) IN
               /\ homepath' = path
               /\ stderr' = Looking(path)
               /\ opened' = Append(opened, path)
               /\ IF file_test_open(path)
                  THEN ret' = Ptr(path) /\ pc' = "done"
                  ELSE ret' = ret /\ pc' = "L243"
               /\ UNCHANGED exitStatus
    /\ UNCHANGED <<inputs, caller, prefixpath, relbinarypath, resolverLocals, stats, calls, failures>>

\* PREFIX does not start with "~/": the branch is not taken
NoHomeOverride ==
    /\ pc = "L220" /\ Running
    /\ ~IsHomePrefix(PREFIX)
    /\ pc' = "L243"
    /\ UNCHANGED <<inputs, caller, chipdbLocals, resolverLocals, observed>>

\* a variant of FixedPrefix that calls the resolver even after a hit
FixedPrefix_KeepsSearching ==
    /\ pc = "L243" /\ Running
    /\ LET path == PrefixPath(PREFIX, CHIPDB_SUBDIR, config_device) IN
       /\ prefixpath' = path
       /\ stderr' = Looking(path)
       /\ opened' = Append(opened, path)
       /\ ret' = ret /\ pc' = "L249"
    /\ UNCHANGED <<inputs, caller, homepath, relbinarypath, resolverLocals,
                   exitStatus, getenvs, stats, calls, failures>>

\* the fixed-prefix candidate: build it, probe it
FixedPrefix ==
    /\ pc = "L243" /\ Running
    /\ LET path == PrefixPath(PREFIX, CHIPDB_SUBDIR, config_device) IN
       /\ prefixpath' = path
       /\ stderr' = Looking(path)
       /\ opened' = Append(opened, path)
       /\ IF file_test_open(path)
          THEN ret' = Ptr(path) /\ pc' = "done"
          ELSE ret' = ret /\ pc' = "L249"
    /\ UNCHANGED <<inputs, caller, homepath, relbinarypath, resolverLocals,
                   exitStatus, getenvs, stats, calls, failures>>

\* the first line of proc_self_dirname on each platform
Entry(p) ==
    CASE p = "linux"   -> "L52"
      [] p = "freebsd" -> "L68"
      [] p = "apple"   -> "L92"
      [] p = "win32"   -> "L109"
      [] p = "openbsd" -> "L142"
      [] OTHER         -> "L200"

\* std::string relbinarypath = proc_self_dirname() + ...: the call
CallResolver ==
    /\ pc = "L249" /\ Running
    /\ pc' = Entry(platform)
    /\ calls' = calls + 1
    /\ UNCHANGED <<inputs, caller, chipdbLocals, resolverLocals,
                   stderr, exitStatus, opened, getenvs, stats, failures>>

\* a variant of RelBinary that returns its candidate without looking at the probe
RelBinary_ReturnsCandidate ==
    /\ pc = "L249ret" /\ Running
    /\ LET path == RelBinaryPath(Deref(dirname), CHIPDB_SUBDIR, config_device) IN
       /\ relbinarypath' = path
       /\ stderr' = Looking(path)
       /\ opened' = Append(opened, path)
       /\ ret' = Ptr(path)
       /\ pc' = "done"
    /\ UNCHANGED <<inputs, caller, homepath, prefixpath, resolverLocals,
                   exitStatus, getenvs, stats, calls, failures>>

\* ... and what follows its return
RelBinary ==
    /\ pc = "L249ret" /\ Running
    /\ LET path == RelBinaryPath(Deref(dirname), CHIPDB_SUBDIR, config_device) IN
       /\ relbinarypath' = path
       /\ stderr' = Looking(path)
       /\ opened' = Append(opened, path)
       /\ ret' = IF file_test_open(path) THEN Ptr(path) ELSE Ptr("")
       /\ pc' = "done"
    /\ UNCHANGED <<inputs, caller, homepath, prefixpath, resolverLocals,
                   exitStatus, getenvs, stats, calls, failures>>

(***************************************************************************)
(* proc_self_dirname                                                       *)
(***************************************************************************)
\* a variant of Fatal that exits without writing the diagnostic
Fatal_Silent(what) ==
    /\ stderr' = stderr
    /\ exitStatus' = "EXIT_FAILURE"
    /\ UNCHANGED pc

\* fprintf(stderr, "fatal error: ..."); exit(EXIT_FAILURE);
Fatal(what) ==
    /\ stderr' = Append(stderr, <<"fatal error", what>>)
    /\ exitStatus' = "EXIT_FAILURE"
    /\ UNCHANGED pc

\* a platform call or an allocation reports failure
Failed(call) == failures' = Append(failures, call)

\* return path;
Return(path) ==
    /\ dirname' = Ptr(path)
    /\ pc' = IF caller = "L249" THEN "L249ret" ELSE "returned"

\* linux, cygwin: readlink("/proc/self/exe", path, sizeof(path))
Readlink ==
    /\ pc = "L52" /\ Running
    /\ \E n \in {-1, Min(Len(exePath), PATH_MAX)} :
          IF n < 0
          THEN Failed("readlink") /\ Fatal("readlink") /\ UNCHANGED <<buffer, buflen>>
          ELSE /\ buffer' = Ptr(Prefix(exePath, n))
               /\ buflen' = n
               /\ pc' = "L57"
               /\ UNCHANGED <<stderr, exitStatus, failures>>
    /\ UNCHANGED <<inputs, caller, chipdbLocals, dirname, epath, ok, xpath, sp, tok,
                   opened, getenvs, stats, calls>>

LinuxTrim ==
    /\ pc = "L57" /\ Running
    /\ Return(Prefix(Deref(buffer), TrimLen(Deref(buffer), buflen)))
    /\ UNCHANGED <<inputs, caller, chipdbLocals, buffer, buflen, epath, ok, xpath, sp, tok,
                   observed>>

\* FreeBSD: sysctl(mib, 4, NULL, &buflen, NULL, 0)
SysctlSize ==
    /\ pc = "L68" /\ Running
    /\ \E r \in {0, -1} :
          IF r # 0
          THEN Failed("sysctl") /\ Fatal("sysctl") /\ UNCHANGED buflen
          ELSE /\ buflen' = Len(exePath) + 1
               /\ pc' = "L72"
               /\ UNCHANGED <<stderr, exitStatus, failures>>
    /\ UNCHANGED <<inputs, caller, chipdbLocals, dirname, buffer, epath, ok, xpath, sp, tok,
                   opened, getenvs, stats, calls>>

\* FreeBSD: buffer = (char*)malloc(buflen)
Malloc ==
    /\ pc = "L72" /\ Running
    /\ \E p \in {NULL, Ptr("")} :
          IF p = NULL
          THEN Failed("malloc") /\ Fatal("malloc") /\ UNCHANGED buffer
          ELSE /\ buffer' = p
               /\ pc' = "L77"
               /\ UNCHANGED <<stderr, exitStatus, failures>>
    /\ UNCHANGED <<inputs, caller, chipdbLocals, dirname, buflen, epath, ok, xpath, sp, tok,
                   opened, getenvs, stats, calls>>

\* FreeBSD: sysctl(mib, 4, buffer, &buflen, NULL, 0)
SysctlFill ==
    /\ pc = "L77" /\ Running
    /\ \E r \in {0, -1} :
          IF r # 0
          THEN Failed("sysctl") /\ Fatal("sysctl") /\ UNCHANGED <<buffer, buflen>>
          ELSE /\ buffer' = Ptr(exePath)
               /\ buflen' = Len(exePath) + 1
               /\ pc' = "L81"
               /\ UNCHANGED <<stderr, exitStatus, failures>>
    /\ UNCHANGED <<inputs, caller, chipdbLocals, dirname, epath, ok, xpath, sp, tok,
                   opened, getenvs, stats, calls>>

\* FreeBSD: trim, path.assign(buffer, buflen), free(buffer)
FreeBSDTrim ==
    /\ pc = "L81" /\ Running
    /\ Return(Prefix(Deref(buffer), TrimLen(Deref(buffer), buflen)))
    /\ buffer' = NULL
    /\ UNCHANGED <<inputs, caller, chipdbLocals, buflen, epath, ok, xpath, sp, tok, observed>>

(***************************************************************************)
(* Apple: _NSGetExecutablePath(path, &buflen) copies the path and returns  *)
(* 0 when buflen is at least the path's size (its length plus the NUL);    *)
(* otherwise it stores that size in buflen and returns -1.  Copying into a *)
(* null buffer is a write through a null pointer, which kills the process. *)
(***************************************************************************)
NSGetExecutablePath ==
    /\ pc = "L92" /\ Running
    /\ LET size == Len(exePath) + 1 IN
       IF buflen >= size
       THEN IF buffer = NULL
            THEN /\ exitStatus' = "SIGSEGV"
                 /\ UNCHANGED <<pc, buffer, buflen, failures>>
            ELSE /\ buffer' = Ptr(exePath)
                 /\ pc' = "L94"
                 /\ UNCHANGED <<buflen, exitStatus, failures>>
       ELSE /\ buflen' = size
            /\ Failed("_NSGetExecutablePath")
            /\ pc' = "L93"
            /\ UNCHANGED <<buffer, exitStatus>>
    /\ UNCHANGED <<inputs, caller, chipdbLocals, dirname, epath, ok, xpath, sp, tok,
                   stderr, opened, getenvs, stats, calls>>

\* Apple: path = (char *) realloc((void *) path, buflen)
Realloc ==
    /\ pc = "L93" /\ Running
    /\ \E p \in {NULL, Ptr("")} :
          /\ buffer' = p
          /\ IF p = NULL THEN Failed("realloc") ELSE UNCHANGED failures
    /\ pc' = "L92"
    /\ UNCHANGED <<inputs, caller, chipdbLocals, dirname, buflen, epath, ok, xpath, sp, tok,
                   stderr, exitStatus, opened, getenvs, stats, calls>>

AppleTrim ==
    /\ pc = "L94" /\ Running
    /\ Return(Prefix(Deref(buffer), TrimLen(Deref(buffer), buflen)))
    /\ UNCHANGED <<inputs, caller, chipdbLocals, buffer, buflen, epath, ok, xpath, sp, tok,
                   observed>>

\* Windows: GetModuleFileName(0, longpath, MAX_PATH+1)
GetModuleFileName ==
    /\ pc = "L109" /\ Running
    /\ \E r \in BOOLEAN :
          IF ~r
          THEN Failed("GetModuleFileName") /\ Fatal("GetModuleFileName") /\ UNCHANGED buffer
          ELSE /\ buffer' = Ptr(exePath)
               /\ pc' = "L113"
               /\ UNCHANGED <<stderr, exitStatus, failures>>
    /\ UNCHANGED <<inputs, caller, chipdbLocals, dirname, buflen, epath, ok, xpath, sp, tok,
                   opened, getenvs, stats, calls>>

\* Windows: GetShortPathName(longpath, shortpath, MAX_PATH+1)
GetShortPathName ==
    /\ pc = "L113" /\ Running
    /\ \E r \in BOOLEAN :
          IF ~r
          THEN Failed("GetShortPathName") /\ Fatal("GetShortPathName") /\ UNCHANGED buffer
          ELSE /\ buffer' = Ptr(ShortPathName(Deref(buffer)))
               /\ pc' = "L117"
               /\ UNCHANGED <<stderr, exitStatus, failures>>
    /\ UNCHANGED <<inputs, caller, chipdbLocals, dirname, buflen, epath, ok, xpath, sp, tok,
                   opened, getenvs, stats, calls>>

\* Windows: find the end of shortpath, cut it behind its last '/' or '\\', copy it
WindowsTrim ==
    /\ pc = "L117" /\ Running
    /\ LET shortpath == Deref(buffer)
           i == TrimLenWin(shortpath, Len(shortpath))
       IN  /\ Return(Prefix(shortpath, i))
           /\ buffer' = Ptr(Prefix(shortpath, i))
           /\ buflen' = i
    /\ UNCHANGED <<inputs, caller, chipdbLocals, epath, ok, xpath, sp, tok, observed>>

\* OpenBSD: sysctl(mib, 4, NULL, &len, NULL, 0)
ArgvSize ==
    /\ pc = "L142" /\ Running
    /\ \E r \in {0, -1} :
          IF r # 0
          THEN Failed("sysctl") /\ Fatal("sysctl") /\ UNCHANGED buflen
          ELSE /\ buflen' = Len(argv0) + 1
               /\ pc' = "L147"
               /\ UNCHANGED <<stderr, exitStatus, failures>>
    /\ UNCHANGED <<inputs, caller, chipdbLocals, dirname, buffer, epath, ok, xpath, sp, tok,
                   opened, getenvs, stats, calls>>

\* OpenBSD: argv = (char**)malloc(len)
ArgvMalloc ==
    /\ pc = "L147" /\ Running
    /\ \E p \in {NULL, Ptr("")} :
          IF p = NULL
          THEN Failed("malloc") /\ Fatal("malloc") /\ UNCHANGED buffer
          ELSE /\ buffer' = p
               /\ pc' = "L152"
               /\ UNCHANGED <<stderr, exitStatus, failures>>
    /\ UNCHANGED <<inputs, caller, chipdbLocals, dirname, buflen, epath, ok, xpath, sp, tok,
                   opened, getenvs, stats, calls>>

\* OpenBSD: sysctl(mib, 4, argv, &len, NULL, 0); comm = argv[0]
ArgvFill ==
    /\ pc = "L152" /\ Running
    /\ \E r \in {0, -1} :
          IF r # 0
          THEN Failed("sysctl") /\ Fatal("sysctl") /\ UNCHANGED buffer
          ELSE /\ buffer' = Ptr(argv0)
               /\ pc' = "L159"
               /\ UNCHANGED <<stderr, exitStatus, failures>>
    /\ UNCHANGED <<inputs, caller, chipdbLocals, dirname, buflen, epath, ok, xpath, sp, tok,
                   opened, getenvs, stats, calls>>

\* OpenBSD: if (realpath(comm, epath)) ok = 1
Realpath ==
    /\ pc = "L159" /\ Running
    /\ IsPathName(Deref(buffer))
    /\ \E resolved \in {NULL, Ptr(exePath)} :
          IF resolved = NULL
          THEN Failed("realpath") /\ UNCHANGED <<epath, ok>>
          ELSE epath' = Deref(resolved) /\ ok' = 1 /\ UNCHANGED failures
    /\ pc' = "L187"
    /\ UNCHANGED <<inputs, caller, chipdbLocals, dirname, buffer, buflen, xpath, sp, tok,
                   stderr, exitStatus, opened, getenvs, stats, calls>>

(***************************************************************************)
(* OpenBSD: xpath = strdup(getenv("PATH")); path = strtok_r(xpath, ":",    *)
(* &sp); if (!xpath) fatal.  strdup of a null pointer reads through it and *)
(* kills the process.  When strdup itself fails, strtok_r is called with a *)
(* null string and an uninitialized sp before xpath is tested: the process *)
(* is killed there or reaches the test and exits.                          *)
(***************************************************************************)
PathDup ==
    /\ pc = "L159" /\ Running
    /\ ~IsPathName(Deref(buffer))
    /\ getenvs' = Append(getenvs, "PATH")
    /\ IF env["PATH"] = NULL
       THEN /\ exitStatus' = "SIGSEGV"
            /\ UNCHANGED <<pc, xpath, sp, tok, stderr, failures>>
       ELSE \E dup \in {NULL, env["PATH"]} :
               IF dup = NULL
               THEN /\ Failed("strdup")
                    /\ \/ exitStatus' = "SIGSEGV" /\ UNCHANGED <<pc, stderr>>
                       \/ Fatal("strdup")
                    /\ UNCHANGED <<xpath, sp, tok>>
               ELSE /\ xpath' = dup
                    /\ tok' = strtok_r(Deref(dup))[1]
                    /\ sp' = strtok_r(Deref(dup))[2]
                    /\ pc' = "L173"
                    /\ UNCHANGED <<stderr, exitStatus, failures>>
    /\ UNCHANGED <<inputs, caller, chipdbLocals, dirname, buffer, buflen, epath, ok,
                   opened, stats, calls>>

\* OpenBSD: one pass of while (path) { snprintf; stat; ...; strtok_r }
PathProbe ==
    /\ pc = "L173" /\ Running
    /\ tok # NULL
    /\ LET full == Deref(tok) \o "/" \o Deref(buffer)
           name == Prefix(full, Min(Len(full), PATH_MAX - 1))
       IN  /\ epath' = name
           /\ stats' = Append(stats, name)
           /\ IF Stat(name) = "exec"
              THEN /\ ok' = 1
                   /\ pc' = "L184"
                   /\ UNCHANGED <<tok, sp>>
              ELSE /\ tok' = strtok_r(sp)[1]
                   /\ sp' = strtok_r(sp)[2]
                   /\ UNCHANGED <<ok, pc>>
    /\ UNCHANGED <<inputs, caller, chipdbLocals, dirname, buffer, buflen, xpath,
                   stderr, exitStatus, opened, getenvs, calls, failures>>

\* OpenBSD: the loop ends with path == NULL or by break; free(xpath)
PathDone ==
    /\ pc \in {"L173", "L184"} /\ Running
    /\ pc = "L173" => tok = NULL
    /\ xpath' = NULL
    /\ pc' = "L187"
    /\ UNCHANGED <<inputs, caller, chipdbLocals, dirname, buffer, buflen, epath, ok, sp, tok,
                   observed>>

\* OpenBSD: if (ok) path.assign(epath, up to the last '/'); free(argv); return path
OpenBSDReturn ==
    /\ pc = "L187" /\ Running
    /\ Return(IF ok = 1 THEN Prefix(epath, TrimLen(epath, Len(epath))) ELSE "")
    /\ buffer' = NULL
    /\ UNCHANGED <<inputs, caller, chipdbLocals, buflen, epath, ok, xpath, sp, tok, observed>>

\* Emscripten: return "/"
EmscriptenReturn ==
    /\ pc = "L200" /\ Running
    /\ Return("/")
    /\ UNCHANGED <<inputs, caller, chipdbLocals, buffer, buflen, epath, ok, xpath, sp, tok,
                   observed>>

ResolverStep ==
    \/ Readlink \/ LinuxTrim
    \/ SysctlSize \/ Malloc \/ SysctlFill \/ FreeBSDTrim
    \/ NSGetExecutablePath \/ Realloc \/ AppleTrim
    \/ GetModuleFileName \/ GetShortPathName \/ WindowsTrim
    \/ ArgvSize \/ ArgvMalloc \/ ArgvFill \/ Realpath \/ PathDup \/ PathProbe \/ PathDone
    \/ OpenBSDReturn
    \/ EmscriptenReturn

Next ==
    \/ HomeOverride
    \/ NoHomeOverride
    \/ FixedPrefix
    \/ CallResolver
    \/ RelBinary
    \/ ResolverStep

Spec == Init /\ [][Next]_vars

\* proc_self_dirname is called by itself
InitResolver ==
    /\ InitProcess(Argv0s, PathValues(MaxPathEntries), FileModes)
    /\ PREFIX = "/opt/tool" /\ CHIPDB_SUBDIR = "share/chipdb"
    /\ config_device = "hx8k"
    /\ verbose = FALSE
    /\ files = {}
    /\ \A n \in EnvNames \ {"PATH"} : env[n] = NULL
    /\ pc = Entry(platform) /\ caller = "main"
    /\ InitLocals

SpecResolver == InitResolver /\ [][ResolverStep]_vars

(***************************************************************************)
(* Properties.  The candidates and the PATH entries are written out here   *)
(* independently of the operators the actions use.                         *)
(***************************************************************************)
Last(seq) == seq[Len(seq)]
Range(seq) == { seq[i] : i \in 1..Len(seq) }
CharsOf(str) == { SubSeq(str, i, i) : i \in 1..Len(str) }

HomeNames == {"HOME", "USERPROFILE", "HOMEDRIVE", "HOMEPATH"}
StartsWithMarker == Len(PREFIX) >= 2 /\ SubSeq(PREFIX, 1, 2) = "~/"

ExpectedHome ==
    IF platform = "win32"
    THEN IF env["USERPROFILE"] # NULL THEN env["USERPROFILE"][1]
         ELSE IF env["HOMEDRIVE"] # NULL /\ env["HOMEPATH"] # NULL
              THEN env["HOMEDRIVE"][1] \o env["HOMEPATH"][1]
              ELSE ""
    ELSE IF env["HOME"] # NULL THEN env["HOME"][1] ELSE ""

FileName == "/chipdb-" \o config_device \o ".txt"
HomeCandidate ==
    ExpectedHome \o SubSeq(PREFIX, 2, Len(PREFIX)) \o "/" \o CHIPDB_SUBDIR \o FileName
PrefixCandidate == PREFIX \o "/share/" \o CHIPDB_SUBDIR \o FileName
RelCandidate(dir) == dir \o "../share/" \o CHIPDB_SUBDIR \o FileName

HomeHit == StartsWithMarker /\ HomeCandidate \in files
PrefixHit == PrefixCandidate \in files
Returned == pc = "done" /\ ret # NULL

\* C1: when find_chipdb returns, it returns the first openable candidate in the
\* order home override (only with a "~/" prefix), fixed prefix, relative to the
\* executable: the home override wins over the fixed prefix, the fixed prefix
\* over the relative candidate, and the empty string is returned when none opens.
C1_Priority ==
    Returned =>
        /\ HomeHit => ret = Ptr(HomeCandidate)
        /\ (~HomeHit /\ PrefixHit) => ret = Ptr(PrefixCandidate)
        /\ (~HomeHit /\ ~PrefixHit) =>
              /\ dirname # NULL
              /\ ret = IF RelCandidate(dirname[1]) \in files
                       THEN Ptr(RelCandidate(dirname[1])) ELSE Ptr("")
        /\ ret # Ptr("") => ret[1] \in files

C1_Witness ==
    /\ Returned /\ HomeHit /\ PrefixHit
    /\ HomeCandidate # PrefixCandidate
    /\ ret = Ptr(HomeCandidate)

C1_WitnessPrefixOverRelative ==
    /\ Returned /\ ~HomeHit /\ PrefixHit
    /\ \E d \in {"", "/b/"} : RelCandidate(d) \in files /\ RelCandidate(d) # PrefixCandidate
    /\ ret = Ptr(PrefixCandidate)

\* C2: once a probe succeeds nothing more happens: the successful probe is the
\* last one, find_chipdb has returned its path and no step is enabled; the
\* resolver is called at most once, and only after the probes before it failed;
\* a hit on the home override leaves exactly one probe and no other candidate built.
C2_StopsAtFirstHit ==
    /\ \A i \in 1..Len(opened) :
          opened[i] \in files =>
              /\ i = Len(opened)
              /\ pc = "done" /\ ret = Ptr(opened[i])
              /\ ~ENABLED Next
    /\ calls <= 1
    /\ calls = 1 =>
          LET n == IF StartsWithMarker THEN 2 ELSE 1
          IN  Len(opened) >= n /\ \A i \in 1..n : opened[i] \notin files
    /\ calls = 0 => dirname = NULL /\ relbinarypath = ""
    /\ (HomeHit /\ opened # <<>>) =>
          opened = <<HomeCandidate>> /\ prefixpath = "" /\ relbinarypath = "" /\ calls = 0

C2_Witness ==
    /\ HomeHit /\ PrefixHit
    /\ opened = <<HomeCandidate>>
    /\ pc = "done" /\ calls = 0

\* C3: without a "~/" prefix find_chipdb reads no home directory variable, builds
\* no home candidate and never probes it, whatever files exist; its first probe
\* is the fixed-prefix candidate.
C3_NoHomeWithoutMarker ==
    ~StartsWithMarker =>
        /\ Range(getenvs) \cap HomeNames = {}
        /\ homepath = ""
        /\ HomeCandidate \notin Range(opened)
        /\ opened # <<>> => opened[1] = PrefixCandidate

C3_Witness ==
    /\ ~StartsWithMarker /\ SubSeq(PREFIX, 1, 1) = "~"
    /\ HomeCandidate \in files /\ ~PrefixHit
    /\ pc = "done" /\ Len(opened) = 2

\* C4 as stated: with no candidate file, once the resolver has been called the
\* run ends with find_chipdb returning the empty string, the process alive.
C4_NeverFatal ==
    (files = {} /\ calls = 1 /\ ~ENABLED Next) =>
        (pc = "done" /\ ret = Ptr("") /\ exitStatus = "running")

ExitingCalls == {"readlink", "sysctl", "malloc", "GetModuleFileName", "GetShortPathName"}

\* C4 as amended: with no candidate file, a call that returns returns the empty
\* string and a run ends either so or with the process terminated; a failed
\* readlink, sysctl, malloc, GetModuleFileName or GetShortPathName in the
\* resolver ends the process with EXIT_FAILURE before find_chipdb returns.
C4_NotFoundOrTerminated ==
    /\ (files = {} /\ pc = "done") => (ret = Ptr("") /\ exitStatus = "running")
    /\ (files = {} /\ ~ENABLED Next) => (pc = "done" \/ exitStatus # "running")
    /\ (failures # <<>> /\ Last(failures) \in ExitingCalls) =>
          (exitStatus = "EXIT_FAILURE" /\ ret = NULL /\ ~ENABLED Next)

C4_Witness ==
    /\ files = {} /\ pc = "done" /\ ret = Ptr("")
    /\ calls = 1 /\ Len(opened) = 3

IsSep(c) == c = "/" \/ (platform = "win32" /\ c = "\\")
LastChar(str) == SubSeq(str, Len(str), Len(str))
EndsWithOneSep(d) ==
    /\ Len(d) >= 1 /\ IsSep(LastChar(d))
    /\ Len(d) >= 2 => ~IsSep(SubSeq(d, Len(d) - 1, Len(d) - 1))

\* the path the platform reported to the resolver
Reported ==
    CASE platform \in {"linux", "freebsd", "apple"} -> exePath
      [] platform = "win32"      -> ShortPathName(exePath)
      [] platform = "openbsd"    -> IF ok = 1 THEN epath ELSE ""
      [] OTHER                   -> "/"

\* C5 as stated: whenever proc_self_dirname returns, its result ends with
\* exactly one path separator.
C5_EndsWithOneSeparator ==
    dirname # NULL => EndsWithOneSep(dirname[1])

\* C5 as amended: whenever proc_self_dirname returns, its result is the reported
\* path cut behind its last separator: it is empty or ends with a separator, and
\* what was cut off holds no separator.  It is empty when the reported path has
\* no separator or nothing was found, and its separator is doubled when the
\* reported path doubles it.
C5_CutBehindLastSeparator ==
    dirname # NULL =>
        LET d == dirname[1] IN
        /\ d = "" \/ IsSep(LastChar(d))
        /\ Len(d) <= Len(Reported)
        /\ SubSeq(Reported, 1, Len(d)) = d
        /\ \A c \in CharsOf(SubSeq(Reported, Len(d) + 1, Len(Reported))) : ~IsSep(c)

C5_Witness ==
    /\ platform = "linux" /\ exePath = "tool"
    /\ dirname = Ptr("")

\* a failed call ended the process: diagnostic naming the call, failure status,
\* no second call, nothing returned
Terminated ==
    /\ exitStatus = "EXIT_FAILURE"
    /\ Len(failures) = 1
    /\ stderr # <<>> /\ Last(stderr) = <<"fatal error", failures[1]>>
    /\ dirname = NULL
    /\ ~ENABLED Next

\* C6 as stated: on linux/cygwin, FreeBSD, Apple and Windows a failed platform
\* call or allocation writes a diagnostic and ends the process with a failure
\* status, without retry and without returning.
C6_FailureIsFatal ==
    (platform \in {"linux", "freebsd", "apple", "win32"} /\ failures # <<>>) => Terminated

\* C6 as amended: the same on linux/cygwin, FreeBSD and Windows only.
C6_FailureIsFatalExceptApple ==
    (platform \in {"linux", "freebsd", "win32"} /\ failures # <<>>) => Terminated

C6_Witness ==
    /\ platform = "freebsd" /\ failures = <<"malloc">>
    /\ exitStatus = "EXIT_FAILURE"

\* the non-empty entries of PATH, in order
RECURSIVE SplitEntries(_, _)
SplitEntries(str, cur) ==
    LET done == IF cur = "" THEN <<>> ELSE <<cur>> IN
    IF str = "" THEN done
    ELSE IF SubSeq(str, 1, 1) = ":"
         THEN done \o SplitEntries(SubSeq(str, 2, Len(str)), "")
         ELSE SplitEntries(SubSeq(str, 2, Len(str)), cur \o SubSeq(str, 1, 1))

PathEntries == IF env["PATH"] = NULL THEN <<>> ELSE SplitEntries(env["PATH"][1], "")
IsExecutable(path) ==
    LET f == Collapse(path) IN f \in DOMAIN modes /\ modes[f] = "exec"
\* the probes the entries es ask for, and the first executable one (0: none)
ProbesOf(es) == [i \in 1..Len(es) |-> es[i] \o "/" \o argv0]
FirstMatchIn(probes) ==
    LET matches == { i \in 1..Len(probes) : IsExecutable(probes[i]) }
    IN  IF matches = {} THEN 0 ELSE CHOOSE i \in matches : \A j \in matches : i <= j
FirstMatch == FirstMatchIn(ProbesOf(PathEntries))
SearchesPath == platform = "openbsd" /\ SubSeq(argv0, 1, 1) \notin {"/", "."}

CutBehindLastSlash(str) ==
    LET at == { i \in 1..Len(str) : SubSeq(str, i, i) = "/" }
    IN  IF at = {} THEN "" ELSE SubSeq(str, 1, CHOOSE i \in at : \A j \in at : j <= i)

\* the probes made are the first of probes, in order, none after match m
ProbedInOrder(probes, m) ==
    /\ Len(stats) <= Len(probes)
    /\ \A i \in 1..Len(stats) : stats[i] = probes[i]
    /\ m # 0 => Len(stats) <= m
    /\ dirname # NULL => Len(stats) = IF m # 0 THEN m ELSE Len(probes)

\* C7 as stated: the PATH entries are probed in order as entry/argv[0] up to the
\* first executable one, and the result is that entry followed by one separator.
C7_ReturnsMatchingEntry ==
    SearchesPath =>
        LET es == PathEntries
            probes == ProbesOf(es)
            m == FirstMatchIn(probes)
        IN  /\ ProbedInOrder(probes, m)
            /\ (dirname # NULL /\ m # 0) => dirname = Ptr(es[m] \o "/")

ExampleSearch ==
    /\ SearchesPath /\ argv0 = "tool" /\ env["PATH"] = Ptr("/a:/b:/c")
    /\ modes["/a/tool"] = "absent" /\ modes["/b/tool"] = "exec" /\ modes["/c/tool"] = "absent"

\* C7 as amended: the PATH entries are probed in order as entry/argv[0] up to the
\* first executable one, and the result is entry/argv[0] cut behind its last
\* separator: the entry followed by one separator when argv[0] holds no
\* separator (PATH "/a:/b:/c" with tool only under /b: /a/tool, /b/tool, "/b/").
C7_ReturnsDirectoryOfMatch ==
    SearchesPath =>
        LET es == PathEntries
            probes == ProbesOf(es)
            m == FirstMatchIn(probes)
        IN  /\ ProbedInOrder(probes, m)
            /\ (dirname # NULL /\ m # 0) =>
                  /\ dirname = Ptr(CutBehindLastSlash(probes[m]))
                  /\ "/" \notin CharsOf(argv0) => dirname = Ptr(es[m] \o "/")
            /\ (dirname # NULL /\ ExampleSearch) =>
                  stats = <<"/a/tool", "/b/tool">> /\ dirname = Ptr("/b/")

C7_Witness ==
    /\ ExampleSearch
    /\ stats = <<"/a/tool", "/b/tool">>
    /\ dirname = Ptr("/b/")

\* C8: the probes are, in this order and character for character, home +
\* prefix[1:] + "/" + subdir + "/chipdb-" + id + ".txt" (only with a "~/" prefix),
\* prefix + "/share/" + subdir + "/chipdb-" + id + ".txt" and executableDir +
\* "../share/" + subdir + "/chipdb-" + id + ".txt"; a non-empty result is the last
\* of them probed; with prefix "/opt/tool", subdir "share/chipdb", id "hx8k" and
\* only /opt/tool/share/share/chipdb/chipdb-hx8k.txt present, that path is returned.
C8_Candidates ==
    LET expected ==
            (IF StartsWithMarker THEN <<HomeCandidate>> ELSE <<>>)
              \o <<PrefixCandidate>>
              \o (IF dirname # NULL THEN <<RelCandidate(dirname[1])>> ELSE <<>>)
    IN  /\ Len(opened) <= Len(expected)
        /\ \A i \in 1..Len(opened) : opened[i] = expected[i]
        /\ (Returned /\ ret # Ptr("")) => (opened # <<>> /\ ret = Ptr(Last(opened)))
        /\ ( /\ Returned
             /\ PREFIX = "/opt/tool" /\ CHIPDB_SUBDIR = "share/chipdb" /\ config_device = "hx8k"
             /\ files = {"/opt/tool/share/share/chipdb/chipdb-hx8k.txt"} )
           => ret = Ptr("/opt/tool/share/share/chipdb/chipdb-hx8k.txt")

C8_Witness ==
    /\ Returned
    /\ PREFIX = "/opt/tool" /\ CHIPDB_SUBDIR = "share/chipdb" /\ config_device = "hx8k"
    /\ files = {"/opt/tool/share/share/chipdb/chipdb-hx8k.txt"}
    /\ ret = Ptr("/opt/tool/share/share/chipdb/chipdb-hx8k.txt")

\* C9: on OpenBSD, once argv[0] is known and no PATH entry holds it (or realpath
\* failed on it) and no allocation failed, the run ends with proc_self_dirname
\* having returned the empty string, the process alive, the last probe being
\* "../share/" + subdir + "/chipdb-" + id + ".txt" and, if it fails, not-found returned.
C9_EmptyDirectoryIsSoft ==
    ( /\ platform = "openbsd" /\ calls = 1
      /\ pc \notin {"L142", "L147", "L152"}
      /\ \/ SearchesPath /\ FirstMatch = 0 /\ failures = <<>>
         \/ ~SearchesPath /\ failures = <<"realpath">>
      /\ ~ENABLED Next )
    => /\ exitStatus = "running" /\ pc = "done"
       /\ dirname = Ptr("")
       /\ Last(opened) = RelCandidate("")
       /\ RelCandidate("") \notin files => ret = Ptr("")

\* the same with PATH set
C9_EmptyDirectoryIsSoftWithPath ==
    (SearchesPath => env["PATH"] # NULL) => C9_EmptyDirectoryIsSoft

\* C10: the Apple retry loop always ends with a successful call: while the
\* process is in the loop it can take a further step.
C10_LoopEndsInSuccess ==
    (platform = "apple" /\ pc \in {"L92", "L93"}) => ENABLED Next

====
